---- MODULE Spec2Model ----
(***************************************************************************)
(* The Facebook comment webhook of api/index.py: one Flask view,           *)
(* facebook_webhook_handler, and its two collaborators,                    *)
(* get_gemini_response (the reply generator) and post_facebook_reply (the  *)
(* platform poster).  One request is followed from its arrival to its      *)
(* response; the two outbound calls are steps of their own, whose outcome  *)
(* the remote service decides.                                             *)
(*                                                                         *)
(* Python values: a dict is a function whose DOMAIN is the set of keys     *)
(* present, a list is a sequence, a comment's message is a sequence of     *)
(* characters (so that str.strip is computed), every other str is a        *)
(* string, and None is the string "None", which no id or token equals.     *)
(* A delivery's JSON holds, for every key present, a value of the type     *)
(* the platform sends (no null, no number where a dict is expected).       *)
(***************************************************************************)
EXTENDS Integers, Sequences, FiniteSets, TLC

\* Bounds of the payloads explored: entries of a payload, and changes of a
\* payload summed over its entries.
MaxEntries == 2
MaxChanges == 2

None == "None"
EmptyDict == [k \in {} |-> None]

\* dict.get(key, default)
Get(d, key, default) == IF key \in DOMAIN d THEN d[key] ELSE default

\* The characters str.strip() removes, among those of the messages explored.
Whitespace == {" "}

RECURSIVE lstrip(_)
lstrip(s) ==
    IF s # <<>> /\ Head(s) \in Whitespace THEN lstrip(Tail(s)) ELSE s

RECURSIVE rstrip(_)
rstrip(s) ==
    IF s # <<>> /\ s[Len(s)] \in Whitespace
        THEN rstrip(SubSeq(s, 1, Len(s) - 1))
        ELSE s

\* A plausible slip: only the leading whitespace is removed.
strip_leading_only(s) == lstrip(s)

\* str.strip()
strip(s) == rstrip(lstrip(s))

---------------------------------------------------------------------------
VARIABLES
    FB_VERIFY_TOKEN,        \* os.environ.get('FB_VERIFY_TOKEN'), None when unset
    FB_PAGE_ACCESS_TOKEN,   \* os.environ.get('FB_PAGE_ACCESS_TOKEN'), None when unset
    gemini_model,           \* None when genai.configure / GenerativeModel raised
    request,                \* the request being handled: method, args, json
    pc,                     \* where the handler is: recv, loop, gen, post, done
    entry_index,            \* position of `for entry in ...` (1-based)
    change_index,           \* position of `for change in ...` (1-based)
    comment_id,             \* locals of the handler
    user_message,
    sender_id,
    ai_response,
    trace,                  \* history: the calls to the collaborators and their returns
    response                \* what the handler returned to Flask

vars == <<FB_VERIFY_TOKEN, FB_PAGE_ACCESS_TOKEN, gemini_model, request, pc,
          entry_index, change_index, comment_id, user_message, sender_id,
          ai_response, trace, response>>

config == <<FB_VERIFY_TOKEN, FB_PAGE_ACCESS_TOKEN, gemini_model>>
locals == <<comment_id, user_message, sender_id, ai_response>>
position == <<entry_index, change_index>>

---------------------------------------------------------------------------
\* Responses.  Flask turns a view that raises, or that returns None as its
\* body, into a 500.
NoResponse == [status |-> 0, body |-> None]
InternalServerError == [status |-> 500, body |-> "Internal Server Error"]

make_response(body, status) ==
    IF body = None THEN InternalServerError ELSE [status |-> status, body |-> body]

VerificationErrorBody == "Error, token de verificacion incorrecto"
MethodNotAllowedBody == "Metodo no permitido"
EventReceivedBody == "EVENT_RECEIVED"
FromPageItselfBody == "EVENT_RECEIVED_FROM_PAGE_ITSELF"
\* A plausible slip: the empty guard answers with the body of line 172.
EmptyCommentBodyOfAcknowledgment == "EVENT_RECEIVED"
EmptyCommentBody == "EVENT_RECEIVED_EMPTY_COMMENT"

\* The generator's two fallback strings.
FallbackNotInitialised == "Lo siento, estoy teniendo problemas tecnicos en este momento."
FallbackException == "Lo siento, no pude procesar tu solicitud con la IA en este momento."

---------------------------------------------------------------------------
\* What the environment sends.  A dict with an optional key:
Opt(key, S) == {EmptyDict} \cup {(key :> v) : v \in S}

\* The process-wide configuration read at import (lines 10-23).
VerifyTokens == {None, "secret"}
AccessTokens == {None, "page-token"}
GeminiModels == {None, "gemini-2.0-flash"}

\* GET /?hub.verify_token=..&hub.challenge=.. ; either parameter may be absent.
GetRequests ==
    {[method |-> "GET", args |-> t @@ c, json |-> EmptyDict] :
        t \in Opt("hub.verify_token", {"secret", "wrong"}),
        c \in Opt("hub.challenge", {"abc123", ""})}

\* The route also answers HEAD, which is neither GET nor POST to the view.
OtherRequests == {[method |-> "HEAD", args |-> EmptyDict, json |-> EmptyDict]}

PageIds == {"P1"}
UserIds == {"U1"}

\* Deliveries with several entries and changes.  A change is a mention, a
\* feed item that is no comment, or a comment by the page or by a user whose
\* message is whitespace or has text between whitespace.
SampleMessages == {<<" ">>, <<" ", "h", " ">>}
SampleChanges ==
    {[field |-> "mention"], [field |-> "feed", value |-> [item |-> "post"]]}
    \cup {[field |-> "feed",
           value |-> [item |-> "comment", message |-> m, from |-> [id |-> s]]] :
            m \in SampleMessages, s \in PageIds \cup UserIds}

\* The platform's comment ids are unique: here, by place in the payload.
CommentIdAt(i, j) == "c" \o ToString(i) \o "_" \o ToString(j)

WithCommentId(change, i, j) ==
    IF "value" \in DOMAIN change /\ Get(change.value, "item", None) = "comment"
        THEN [change EXCEPT !.value = @ @@ ("comment_id" :> CommentIdAt(i, j))]
        ELSE change

WithCommentIds(entries) ==
    [i \in 1..Len(entries) |->
        [entries[i] EXCEPT !.changes =
            [j \in 1..Len(entries[i].changes) |->
                WithCommentId(entries[i].changes[j], i, j)]]]

\* The lists of at most n entries that hold at most budget changes in all.
RECURSIVE EntryLists(_, _)
EntryLists(n, budget) ==
    IF n = 0
        THEN {<<>>}
        ELSE {<<>>} \cup UNION {
                {<<[id |-> p, changes |-> cs]>> \o rest :
                    p \in PageIds,
                    cs \in [1..k -> SampleChanges],
                    rest \in EntryLists(n - 1, budget - k)} :
                k \in 0..budget}

PostRequests ==
    {[method |-> "POST", args |-> EmptyDict,
      json |-> o @@ ("entry" :> WithCommentIds(es))] :
        o \in Opt("object", {"page", "user"}),
        es \in EntryLists(MaxEntries, MaxChanges)}

\* Deliveries of at most one entry with at most one change, in which every
\* key of the payload is present or absent independently of the others.
FieldMessages ==
    {<<>>, <<" ">>, <<"h">>, <<" ", "h", " ">>, <<"h", " ", "h">>}
FieldValues ==
    {i @@ c @@ m @@ f :
        i \in Opt("item", {"comment", "post"}),
        c \in Opt("comment_id", {"c1"}),
        m \in Opt("message", FieldMessages),
        f \in Opt("from", Opt("id", PageIds \cup UserIds))}
FieldChanges ==
    {f @@ v : f \in Opt("field", {"feed", "mention"}), v \in Opt("value", FieldValues)}
FieldEntries ==
    {p @@ c :
        p \in Opt("id", PageIds),
        c \in Opt("changes", {<<>>} \cup {<<ch>> : ch \in FieldChanges})}
FieldPostRequests ==
    {[method |-> "POST", args |-> EmptyDict, json |-> o @@ e] :
        o \in Opt("object", {"page", "user"}),
        e \in Opt("entry", {<<>>} \cup {<<en>> : en \in FieldEntries})}

InitWith(requests) ==
    /\ FB_VERIFY_TOKEN \in VerifyTokens
    /\ FB_PAGE_ACCESS_TOKEN \in AccessTokens
    /\ gemini_model \in GeminiModels
    /\ request \in requests
    /\ pc = "recv"
    /\ entry_index = 0
    /\ change_index = 0
    /\ comment_id = None
    /\ user_message = <<>>
    /\ sender_id = None
    /\ ai_response = None
    /\ trace = <<>>
    /\ response = NoResponse

Init == InitWith(GetRequests \cup OtherRequests \cup PostRequests)

InitFields == InitWith(GetRequests \cup OtherRequests \cup FieldPostRequests)

---------------------------------------------------------------------------
\* The reply generator (get_gemini_response).  `outcome` is what
\* gemini_model.generate_content / response.text does: it raises, or it
\* yields a text, which may be empty.  The result is the value returned, or
\* the exception that leaves the function.
GeminiOutcomes ==
    {[raises |-> TRUE, text |-> ""]}
    \cup {[raises |-> FALSE, text |-> t] : t \in {"", "Hola, gracias por escribir"}}

\* A plausible slip: no fallback text, the failure yields no reply.
get_gemini_response_no_fallback(model, outcome) ==
    IF model = None \/ outcome.raises
        THEN [ret |-> "", exc |-> None]
        ELSE [ret |-> outcome.text, exc |-> None]

get_gemini_response(model, outcome) ==
    IF model = None
        THEN [ret |-> FallbackNotInitialised, exc |-> None]
        ELSE IF outcome.raises
            THEN [ret |-> FallbackException, exc |-> None]
            ELSE [ret |-> outcome.text, exc |-> None]

\* The platform poster (post_facebook_reply).  `outcome` is what
\* requests.post / raise_for_status does: "ok", or a RequestException that
\* carries the platform's response ("http_error") or none ("no_response").
PostOutcomes == {"ok", "http_error", "no_response"}

\* A plausible slip: the RequestException is not caught.
post_facebook_reply_uncaught(token, outcome) ==
    IF token = None
        THEN [ret |-> FALSE, exc |-> None]
        ELSE IF outcome = "ok"
            THEN [ret |-> TRUE, exc |-> None]
            ELSE [ret |-> FALSE, exc |-> "RequestException"]

post_facebook_reply(token, outcome) ==
    IF token = None
        THEN [ret |-> FALSE, exc |-> None]
        ELSE IF outcome = "ok"
            THEN [ret |-> TRUE, exc |-> None]
            ELSE [ret |-> FALSE, exc |-> None]

---------------------------------------------------------------------------
\* facebook_webhook_handler

\* A plausible slip: any request passes the verification.
token_always_matches(verify_token, secret) == TRUE

\* line 100
token_matches(verify_token, secret) == verify_token = secret

\* GET: the verification handshake.
Verify ==
    /\ pc = "recv"
    /\ request.method = "GET"
    /\ LET verify_token == Get(request.args, "hub.verify_token", None) IN
        IF token_matches(verify_token, FB_VERIFY_TOKEN)
            THEN LET challenge == Get(request.args, "hub.challenge", None) IN
                response' = make_response(challenge, 200)
            ELSE response' = make_response(VerificationErrorBody, 403)
    /\ pc' = "done"
    /\ UNCHANGED <<config, request, position, locals, trace>>

\* Neither GET nor POST.
MethodNotAllowed ==
    /\ pc = "recv"
    /\ request.method \notin {"GET", "POST"}
    /\ response' = make_response(MethodNotAllowedBody, 405)
    /\ pc' = "done"
    /\ UNCHANGED <<config, request, position, locals, trace>>

data == request.json
entries == Get(data, "entry", <<>>)
entry == entries[entry_index]
changes == Get(entry, "changes", <<>>)
change == changes[change_index]

\* A plausible slip: data.get("object", "page"), a payload that names no
\* object is taken for a page's.
is_page_object_by_default(d) == Get(d, "object", "page") = "page"

\* line 113
is_page_object(d) == Get(d, "object", None) = "page"

\* lines 117-122
is_comment(ch) ==
    /\ Get(ch, "field", None) = "feed"
    /\ Get(Get(ch, "value", EmptyDict), "item", None) = "comment"

\* A plausible slip: item_value["message"], which raises KeyError when the
\* key is absent.
comment_fields_subscript(en, ch) ==
    LET item_value == Get(ch, "value", EmptyDict) IN
    [comment_id |-> Get(item_value, "comment_id", None),
     user_message |-> strip(Get(item_value, "message", <<>>)),
     sender_id |-> Get(Get(item_value, "from", EmptyDict), "id", None),
     page_id |-> Get(en, "id", None),
     exc |-> IF "message" \in DOMAIN item_value THEN None ELSE "KeyError"]

\* lines 115, 118, 123-125: what the handler reads of a comment.
comment_fields(en, ch) ==
    LET item_value == Get(ch, "value", EmptyDict) IN
    [comment_id |-> Get(item_value, "comment_id", None),
     user_message |-> strip(Get(item_value, "message", <<>>)),
     sender_id |-> Get(Get(item_value, "from", EmptyDict), "id", None),
     page_id |-> Get(en, "id", None),
     exc |-> None]

\* A plausible slip: the guard is left out.
never_self_reply(sender, page_id_from_event) == FALSE

\* line 135
is_self_reply(sender, page_id_from_event) == sender = page_id_from_event

\* A plausible slip: the guard is left out.
never_empty(message) == FALSE

\* line 139
is_empty(message) == message = <<>>

\* POST, up to the first loop: the object check.
Deliver ==
    /\ pc = "recv"
    /\ request.method = "POST"
    /\ IF is_page_object(data)
        THEN /\ pc' = "loop"
             /\ entry_index' = 1
             /\ change_index' = 1
             /\ UNCHANGED response
        ELSE /\ pc' = "done"
             /\ response' = make_response(EventReceivedBody, 200)
             /\ UNCHANGED position
    /\ UNCHANGED <<config, request, locals, trace>>

\* The inner loop is exhausted: the next entry.
NextEntry ==
    /\ pc = "loop"
    /\ entry_index <= Len(entries)
    /\ change_index > Len(changes)
    /\ entry_index' = entry_index + 1
    /\ change_index' = 1
    /\ UNCHANGED <<config, request, pc, locals, trace, response>>

\* The outer loop is exhausted: the acknowledgment of line 172.
Acknowledge ==
    /\ pc = "loop"
    /\ entry_index > Len(entries)
    /\ response' = make_response(EventReceivedBody, 200)
    /\ pc' = "done"
    /\ UNCHANGED <<config, request, position, locals, trace>>

\* A change that is no comment of the feed is passed over.
SkipChange ==
    /\ pc = "loop"
    /\ entry_index <= Len(entries)
    /\ change_index <= Len(changes)
    /\ ~is_comment(change)
    /\ change_index' = change_index + 1
    /\ UNCHANGED <<config, request, pc, entry_index, locals, trace, response>>

\* A comment: the two guards, then the call of the generator.
ExamineComment ==
    /\ pc = "loop"
    /\ entry_index <= Len(entries)
    /\ change_index <= Len(changes)
    /\ is_comment(change)
    /\ LET f == comment_fields(entry, change) IN
        IF f.exc # None
            THEN /\ response' = InternalServerError
                 /\ pc' = "done"
                 /\ UNCHANGED <<locals, trace>>
            ELSE /\ comment_id' = f.comment_id
                 /\ user_message' = f.user_message
                 /\ sender_id' = f.sender_id
                 /\ UNCHANGED ai_response
                 /\ IF is_self_reply(f.sender_id, f.page_id)
                     THEN /\ response' = make_response(FromPageItselfBody, 200)
                          /\ pc' = "done"
                          /\ UNCHANGED trace
                     ELSE IF is_empty(f.user_message)
                         THEN /\ response' = make_response(EmptyCommentBody, 200)
                              /\ pc' = "done"
                              /\ UNCHANGED trace
                         ELSE /\ trace' = Append(trace,
                                    [ev |-> "call_gen", at |-> position,
                                     arg |-> f.user_message])
                              /\ pc' = "gen"
                              /\ UNCHANGED response
    /\ UNCHANGED <<config, request, position>>

\* The generator returns; a non-empty reply is handed to the poster.
GeneratorReturns ==
    /\ pc = "gen"
    /\ \E outcome \in GeminiOutcomes :
        LET r == get_gemini_response(gemini_model, outcome)
            returned == [ev |-> "ret_gen", at |-> position, ret |-> r.ret,
                         failed |-> (gemini_model = None \/ outcome.raises)]
        IN  IF r.exc # None
                THEN /\ response' = InternalServerError
                     /\ pc' = "done"
                     /\ UNCHANGED <<position, ai_response, trace>>
                ELSE /\ ai_response' = r.ret
                     /\ UNCHANGED response
                     /\ IF r.ret # ""
                         THEN /\ trace' = trace \o <<returned,
                                    [ev |-> "call_post", at |-> position,
                                     comment_id |-> comment_id, message |-> r.ret]>>
                              /\ pc' = "post"
                              /\ UNCHANGED position
                         ELSE /\ trace' = Append(trace, returned)
                              /\ pc' = "loop"
                              /\ change_index' = change_index + 1
                              /\ UNCHANGED entry_index
    /\ UNCHANGED <<config, request, comment_id, user_message, sender_id>>

\* A plausible slip: a failed post is tried again.
PosterReturnsRetrying ==
    /\ pc = "post"
    /\ \E outcome \in PostOutcomes :
        LET r == post_facebook_reply(FB_PAGE_ACCESS_TOKEN, outcome)
            returned == [ev |-> "ret_post", at |-> position, ok |-> r.ret]
        IN  IF r.ret
                THEN /\ trace' = Append(trace, returned)
                     /\ pc' = "loop"
                     /\ change_index' = change_index + 1
                ELSE /\ trace' = trace \o <<returned,
                            [ev |-> "call_post", at |-> position,
                             comment_id |-> comment_id, message |-> ai_response]>>
                     /\ pc' = "post"
                     /\ UNCHANGED change_index
    /\ UNCHANGED <<config, request, entry_index, locals, response>>

\* The poster returns; whatever it says, the loop goes on.
PosterReturns ==
    /\ pc = "post"
    /\ \E outcome \in PostOutcomes :
        LET r == post_facebook_reply(FB_PAGE_ACCESS_TOKEN, outcome) IN
        IF r.exc # None
            THEN /\ response' = InternalServerError
                 /\ pc' = "done"
                 /\ UNCHANGED <<position, trace>>
            ELSE /\ trace' = Append(trace,
                        [ev |-> "ret_post", at |-> position, ok |-> r.ret])
                 /\ pc' = "loop"
                 /\ change_index' = change_index + 1
                 /\ UNCHANGED <<entry_index, response>>
    /\ UNCHANGED <<config, request, locals>>

Next ==
    \/ Verify
    \/ MethodNotAllowed
    \/ Deliver
    \/ NextEntry
    \/ Acknowledge
    \/ SkipChange
    \/ ExamineComment
    \/ GeneratorReturns
    \/ PosterReturns

Spec == Init /\ [][Next]_vars

SpecFields == InitFields /\ [][Next]_vars

---------------------------------------------------------------------------
\* What the properties speak of, read from the request itself and not
\* through the handler's own accessors.

IsPost == request.method = "POST"
IsGet == request.method = "GET"
Has(d, key) == key \in DOMAIN d

PagePayload == Has(request.json, "object") /\ request.json.object = "page"
PayloadEntries == IF Has(request.json, "entry") THEN request.json.entry ELSE <<>>
EntryChanges(i) ==
    IF Has(PayloadEntries[i], "changes") THEN PayloadEntries[i].changes ELSE <<>>

\* The places <<entry, change>> of the payload, in the order of the loops.
Places ==
    UNION {{<<i, j>> : j \in 1..Len(EntryChanges(i))} : i \in 1..Len(PayloadEntries)}
Before(p, q) == p[1] < q[1] \/ (p[1] = q[1] /\ p[2] < q[2])
\* The handler has dealt with place q and gone on.
Processed(q) == Before(q, position)

ChangeAt(q) == EntryChanges(q[1])[q[2]]
HasValue(q) == Has(ChangeAt(q), "value")
CommentEvent(q) ==
    /\ Has(ChangeAt(q), "field") /\ ChangeAt(q).field = "feed"
    /\ HasValue(q)
    /\ Has(ChangeAt(q).value, "item") /\ ChangeAt(q).value.item = "comment"
PageIdOf(q) == IF Has(PayloadEntries[q[1]], "id") THEN PayloadEntries[q[1]].id ELSE None
HasSender(q) == Has(ChangeAt(q).value, "from") /\ Has(ChangeAt(q).value.from, "id")
SenderOf(q) == IF HasSender(q) THEN ChangeAt(q).value.from.id ELSE None
HasMessage(q) == Has(ChangeAt(q).value, "message")
MessageOf(q) == IF HasMessage(q) THEN ChangeAt(q).value.message ELSE <<>>
HasCommentId(q) == Has(ChangeAt(q).value, "comment_id")
CommentIdOf(q) == IF HasCommentId(q) THEN ChangeAt(q).value.comment_id ELSE None

AllWhitespace(s) == \A k \in 1..Len(s) : s[k] = " "
\* t is s without its leading and trailing whitespace.
IsTrimOf(t, s) ==
    /\ t = <<>> \/ (t[1] # " " /\ t[Len(t)] # " ")
    /\ \E a \in 0..Len(s) :
        /\ a + Len(t) <= Len(s)
        /\ SubSeq(s, a + 1, a + Len(t)) = t
        /\ AllWhitespace(SubSeq(s, 1, a))
        /\ AllWhitespace(SubSeq(s, a + Len(t) + 1, Len(s)))

SelfAuthored(q) == CommentEvent(q) /\ SenderOf(q) = PageIdOf(q)
EmptyComment(q) ==
    CommentEvent(q) /\ SenderOf(q) # PageIdOf(q) /\ AllWhitespace(MessageOf(q))
Answerable(q) ==
    CommentEvent(q) /\ SenderOf(q) # PageIdOf(q) /\ ~AllWhitespace(MessageOf(q))

Events(kind) == {k \in 1..Len(trace) : trace[k].ev = kind}
EventsAt(kind, q) == {k \in Events(kind) : trace[k].at = q}
Acknowledged == pc = "done" /\ response.status = 200

---------------------------------------------------------------------------
\* C1: every POST delivery ends in a response of status 200, whatever the
\* generator (text, empty text, failure) and the poster (success, failure)
\* do; no step of the processing of a delivery yields another status.
C1_DeliveryAlwaysAcknowledged ==
    IsPost =>
        /\ pc = "done" => response.status = 200
        /\ pc # "done" => response = NoResponse

\* A delivery acknowledged after the generator failed and the post failed.
C1_Witness ==
    /\ IsPost /\ Acknowledged
    /\ \E k \in Events("ret_gen") : trace[k].failed
    /\ \E k \in Events("ret_post") : ~trace[k].ok

\* C2: a comment by another than the page, with text left after trimming:
\* the generator is called, once, with the trimmed message; the poster is
\* called exactly when the generator returned a non-empty text, with the
\* comment's id and that text; the response is 200 whatever the poster says.
C2_AnswerableCommentIsAnswered ==
    IsPost =>
        /\ \A k \in Events("call_gen") :
            /\ Answerable(trace[k].at)
            /\ IsTrimOf(trace[k].arg, MessageOf(trace[k].at))
        /\ \A q \in Places :
            (PagePayload /\ Answerable(q)
                /\ (Processed(q) \/ (q = position /\ pc \in {"gen", "post"})))
            => Cardinality(EventsAt("call_gen", q)) = 1
        /\ \A k \in Events("ret_gen") :
            (trace[k].ret # "") <=> (EventsAt("call_post", trace[k].at) # {})
        /\ \A m \in Events("call_post") :
            /\ m > 1
            /\ trace[m - 1].ev = "ret_gen"
            /\ trace[m - 1].at = trace[m].at
            /\ trace[m].message = trace[m - 1].ret
            /\ trace[m].comment_id = CommentIdOf(trace[m].at)
        /\ (pc = "done" /\ Events("ret_post") # {}) => response.status = 200

\* A comment whose message was trimmed, answered, the post failing, and the
\* delivery acknowledged.
C2_Witness ==
    /\ IsPost /\ Acknowledged
    /\ \E k \in Events("call_gen") : trace[k].arg # MessageOf(trace[k].at)
    /\ \E k \in Events("ret_post") : ~trace[k].ok
    /\ \E k \in Events("ret_gen") : trace[k].ret = ""

\* C3: self-reply guard.  At a comment whose sender is the page of its
\* entry the handler returns 200 at once: it never goes past that comment,
\* and calls neither collaborator for it or for anything after it.
C3_SelfReplyGuard ==
    IsPost =>
        \A q \in Places :
            (PagePayload /\ SelfAuthored(q)) =>
                /\ ~Processed(q)
                /\ \A k \in 1..Len(trace) : Before(trace[k].at, q)
                /\ position = q => pc \in {"loop", "done"}
                /\ (position = q /\ pc = "done") => response.status = 200

\* The handler stopped at the page's own comment although an answerable
\* comment follows it.
C3_Witness ==
    /\ IsPost /\ Acknowledged
    /\ position \in Places
    /\ SelfAuthored(position)
    /\ \E q \in Places : Before(position, q) /\ Answerable(q)

\* C4: verification.  A GET whose token equals the configured secret is
\* answered 200 with the challenge it supplied, unchanged; every other GET
\* is answered 403 with the fixed error body; a 200 is given to no other
\* token; neither collaborator is called.
C4_Verification ==
    IsGet =>
        LET supplied == IF Has(request.args, "hub.verify_token")
                            THEN request.args["hub.verify_token"] ELSE None
        IN  /\ trace = <<>>
            /\ pc \in {"recv", "done"}
            /\ pc = "done" =>
                /\ (supplied = FB_VERIFY_TOKEN /\ Has(request.args, "hub.challenge"))
                    => response =
                        [status |-> 200, body |-> request.args["hub.challenge"]]
                /\ supplied # FB_VERIFY_TOKEN
                    => response =
                        [status |-> 403,
                         body |-> "Error, token de verificacion incorrecto"]
                /\ response.status = 200 => supplied = FB_VERIFY_TOKEN

\* The handshake succeeded and echoed the challenge.
C4_Witness ==
    /\ IsGet /\ pc = "done"
    /\ FB_VERIFY_TOKEN = "secret"
    /\ response = [status |-> 200, body |-> "abc123"]

\* C5: a failure inside the generator (no model, or the call raises) never
\* leaves it: it returns its fixed, non-empty fallback text; the delivery is
\* still answered 200, and the poster is never called with an empty message.
C5_GeneratorFailureIsSwallowed ==
    IsPost =>
        /\ \A k \in Events("ret_gen") :
            trace[k].failed =>
                /\ trace[k].ret # ""
                /\ trace[k].ret =
                    IF gemini_model = None
                        THEN "Lo siento, estoy teniendo problemas tecnicos en este momento."
                        ELSE "Lo siento, no pude procesar tu solicitud con la IA en este momento."
        /\ \A k \in Events("call_post") : trace[k].message # ""
        /\ response.status # 500
        /\ pc = "done" => response.status = 200

\* The generate_content call raised, the fallback was posted, and the
\* delivery was acknowledged.
C5_Witness ==
    /\ IsPost /\ Acknowledged
    /\ gemini_model # None
    /\ \E k \in Events("ret_gen") :
        /\ trace[k].failed
        /\ \E m \in EventsAt("call_post", trace[k].at) :
            trace[m].message = trace[k].ret

\* C6: empty guard.  At a comment by another than the page whose message is
\* empty or whitespace the handler returns 200 at once: it never goes past
\* that comment, and calls neither collaborator for it or for anything
\* after it.
C6_EmptyGuard ==
    IsPost =>
        \A q \in Places :
            (PagePayload /\ EmptyComment(q)) =>
                /\ ~Processed(q)
                /\ \A k \in 1..Len(trace) : Before(trace[k].at, q)
                /\ position = q => pc \in {"loop", "done"}
                /\ (position = q /\ pc = "done") => response.status = 200

\* The handler stopped at a whitespace comment although an answerable
\* comment follows it.
C6_Witness ==
    /\ IsPost /\ Acknowledged
    /\ position \in Places
    /\ EmptyComment(position)
    /\ MessageOf(position) # <<>>
    /\ \E q \in Places : Before(position, q) /\ Answerable(q)

\* C7: a payload whose object is not "page", or that names no object, is
\* answered 200 "EVENT_RECEIVED" without a call to either collaborator,
\* whatever its entries hold.
C7_NonPageObjectIgnored ==
    (IsPost /\ ~PagePayload) =>
        /\ trace = <<>>
        /\ pc \in {"recv", "done"}
        /\ pc = "done" => response = [status |-> 200, body |-> "EVENT_RECEIVED"]

\* A payload that names no object and holds an answerable comment was
\* acknowledged.
C7_Witness ==
    /\ IsPost /\ Acknowledged
    /\ ~Has(request.json, "object")
    /\ \E q \in Places : Answerable(q)

\* C8, as the specification states it: every delivery is answered with one
\* and the same body, whether the loops ended or a guard returned early.
C8_OneFixedBody ==
    (IsPost /\ pc = "done") => response.body = "EVENT_RECEIVED"

\* C8, amended: every delivery is answered 200 with a body fixed by the way
\* the handler returned: "EVENT_RECEIVED_FROM_PAGE_ITSELF" from the
\* self-reply guard, "EVENT_RECEIVED_EMPTY_COMMENT" from the empty guard,
\* "EVENT_RECEIVED" otherwise.
C8_BodyFixedByPath ==
    (IsPost /\ pc = "done") =>
        /\ response.status = 200
        /\ response.body =
            IF PagePayload /\ position \in Places /\ SelfAuthored(position)
                THEN "EVENT_RECEIVED_FROM_PAGE_ITSELF"
                ELSE IF PagePayload /\ position \in Places /\ EmptyComment(position)
                    THEN "EVENT_RECEIVED_EMPTY_COMMENT"
                    ELSE "EVENT_RECEIVED"

\* The empty guard returned, after an earlier comment had been answered.
C8_Witness ==
    /\ IsPost /\ pc = "done"
    /\ response.body = "EVENT_RECEIVED_EMPTY_COMMENT"
    /\ Events("ret_post") # {}

\* C9: a payload in which any of object, entry, id, changes, field, value,
\* item, comment_id, message, from, from.id is missing does not fail the
\* request: the response is 200, and each missing key counts as absent (no
\* object: not a page's; no entry or changes: nothing to iterate; no field,
\* value or item: no comment; no message: an empty one; no comment_id: None
\* is handed to the poster; no sender: None, which only an entry without id
\* matches).
C9_MissingFieldsTolerated ==
    IsPost =>
        /\ response.status # 500
        /\ pc = "done" => response.status = 200
        /\ (~Has(request.json, "object") \/ ~Has(request.json, "entry")) =>
            /\ trace = <<>>
            /\ pc = "done" => response.body = "EVENT_RECEIVED"
        /\ \A i \in 1..Len(PayloadEntries) :
            ~Has(PayloadEntries[i], "changes") =>
                /\ trace = <<>>
                /\ pc = "done" => response.body = "EVENT_RECEIVED"
        /\ \A q \in Places :
            LET calls == {k \in 1..Len(trace) : trace[k].at = q} IN
            /\ ~CommentEvent(q) => calls = {}
            /\ (CommentEvent(q) /\ ~HasMessage(q)) => calls = {}
            /\ (CommentEvent(q) /\ ~HasCommentId(q)) =>
                \A m \in EventsAt("call_post", q) : trace[m].comment_id = None
            /\ (CommentEvent(q) /\ ~HasSender(q)) =>
                IF Has(PayloadEntries[q[1]], "id")
                    THEN (Processed(q) /\ ~AllWhitespace(MessageOf(q)))
                            => EventsAt("call_gen", q) # {}
                    ELSE calls = {}

\* A comment without comment_id and without sender was answered, and the
\* delivery acknowledged.
C9_Witness ==
    /\ IsPost /\ Acknowledged
    /\ \E q \in Places :
        /\ CommentEvent(q)
        /\ ~HasCommentId(q)
        /\ ~Has(ChangeAt(q).value, "from")
        /\ EventsAt("ret_post", q) # {}

\* C10: the poster is called at most once for a comment, never raises to the
\* handler, and a failed post stops nothing: the handler goes on to the
\* changes and entries that follow, and stops only at a guard or at the end
\* of the payload.
C10_PostFailureIsLocal ==
    IsPost =>
        /\ \A q \in Places : Cardinality(EventsAt("call_post", q)) <= 1
        /\ response.status # 500
        /\ \A k \in Events("ret_post") :
            ~trace[k].ok =>
                /\ Processed(trace[k].at)
                /\ pc = "done" =>
                    /\ response.status = 200
                    /\ \/ position \notin Places
                       \/ SelfAuthored(position)
                       \/ EmptyComment(position)
                /\ \A q \in Places :
                    (Before(trace[k].at, q) /\ Processed(q) /\ Answerable(q))
                        => EventsAt("call_gen", q) # {}

\* A post failed, the comment after it was answered all the same, and the
\* delivery was acknowledged.
C10_Witness ==
    /\ IsPost /\ Acknowledged
    /\ \E k \in Events("ret_post") :
        /\ ~trace[k].ok
        /\ \E m \in Events("ret_post") : Before(trace[k].at, trace[m].at) /\ trace[m].ok

====
